---- MODULE Spec2Model ----
(***************************************************************************)
(* A model of StackVM's parser front end:                                  *)
(*   - the scope / symbol table of src/src/parser/nodes.ts (SVScope,       *)
(*     SVScopeDefinition), and                                             *)
(*   - the Parser session of src/unnamed/part_000 (the global-name         *)
(*     pre-pass, scanNode and parse) with the node classes of nodes.ts.    *)
(* SpecScope drives the scope operations, SpecParser the parser session.   *)
(***************************************************************************)
EXTENDS Integers, Sequences, FiniteSets, TLC

VARIABLES
  scopes,      \* the SVScope objects constructed so far, by position
  defined,     \* per scope: the ids returned by its successful defineVariable calls
  lastOp,      \* the last scope operation: its arguments, the scope before it, its outcome
  globals,     \* Parser.globals
  nodesRoot,   \* Parser.nodesRoot
  calls,       \* number of parse calls made on the session
  lastCall     \* the last parse call: its tree, the session before it, its outcome

vars == <<scopes, defined, lastOp, globals, nodesRoot, calls, lastCall>>
scopeVars == <<scopes, defined, lastOp>>
parserVars == <<globals, nodesRoot, calls, lastCall>>

----------------------------------------------------------------------------
(* Bounds of the model *)

\* scopes constructed in one run; each new scope nests in the latest one, so the
\* scopes form one chain (a lookup reads nothing but the chain above its scope)
MaxScopes == 3
\* successful defineVariable calls in one run
MaxDefines == 2

Names == {"v", "w"}
Kinds == {"let", "var", "const"}

----------------------------------------------------------------------------
(* nodes.ts: SVScopeDefinition and SVScope *)

\* new SVScopeDefinition(id, kind, constant, scope); scope is the owning scope's position
SVScopeDefinition(id, kind, constant, scope) ==
  [id |-> id, kind |-> kind, constant |-> constant, scope |-> scope]

\* the value a lastOp record carries when no definition was returned
NoDefinition == [id |-> -1, kind |-> "none", constant |-> FALSE, scope |-> 0]

\* new SVScope(id, parent): parent ?? null is 0, variables is an empty Map
SVScope(id, parent) ==
  [id |-> id, parent |-> parent, variables |-> [n \in {} |-> NoDefinition]]

\* assert(condition, message) of ../utils: returns normally iff the condition is truthy
assert(condition) == condition

hasVariable(S, s, name) == name \in DOMAIN S[s].variables

hasVariableInParentRoot(S, s, name) ==
  \/ name \in DOMAIN S[s].variables
  \/ (S[s].parent # 0 /\ hasVariable(S, S[s].parent, name))

\* getVariable throws iff its assert fails
getVariableThrows(S, s, name) == ~assert(name \in DOMAIN S[s].variables)

getVariable(S, s, name) == S[s].variables[name]

RECURSIVE getVariableInParentRootThrows(_, _, _)
getVariableInParentRootThrows(S, s, name) ==
  IF hasVariable(S, s, name) THEN getVariableThrows(S, s, name)
  ELSE IF S[s].parent # 0 THEN getVariableInParentRootThrows(S, S[s].parent, name)
  ELSE TRUE

\* mutant: the outermost binding wins (the walk prefers the parent's result)
RECURSIVE getVariableInParentRootOutermost(_, _, _)
getVariableInParentRootOutermost(S, s, name) ==
  IF S[s].parent # 0 /\ ~getVariableInParentRootThrows(S, S[s].parent, name)
  THEN getVariableInParentRootOutermost(S, S[s].parent, name)
  ELSE IF hasVariable(S, s, name) THEN getVariable(S, s, name)
  ELSE NoDefinition

RECURSIVE getVariableInParentRoot(_, _, _)
getVariableInParentRoot(S, s, name) ==
  IF hasVariable(S, s, name) THEN getVariable(S, s, name)
  ELSE IF S[s].parent # 0 THEN getVariableInParentRoot(S, S[s].parent, name)
  ELSE NoDefinition

\* mutant: the assert of defineVariable is dropped
defineVariableAcceptsAlways(variables, name, kind) == TRUE

\* defineVariable returns normally iff its assert holds
defineVariableAccepts(variables, name, kind) ==
  LET isDefined == name \in DOMAIN variables
  IN  assert(~isDefined \/ kind = "var")

\* the Map after this.variables.set(name, new SVScopeDefinition(size, kind, constant, this))
defineVariableSet(variables, s, name, kind, constant) ==
  LET definition == SVScopeDefinition(Cardinality(DOMAIN variables), kind, constant, s)
  IN  (name :> definition) @@ variables

----------------------------------------------------------------------------
(* The scope operations as steps *)

Op(op, s, name, kind, constant, threw, found, def, before) ==
  [op |-> op, scope |-> s, name |-> name, kind |-> kind, constant |-> constant,
   threw |-> threw, found |-> found, def |-> def, before |-> before]

NoOp == Op("none", 0, "", "none", FALSE, FALSE, FALSE, NoDefinition, SVScope(0, 0).variables)

TotalDefines == LET RECURSIVE Sum(_)
                    Sum(i) == IF i = 0 THEN 0 ELSE Len(defined[i]) + Sum(i - 1)
                IN  Sum(Len(defined))

NewScope(parent) ==
  /\ Len(scopes) < MaxScopes
  /\ scopes' = Append(scopes, SVScope(Len(scopes) + 1, parent))
  /\ defined' = Append(defined, <<>>)
  /\ lastOp' = Op("new", Len(scopes) + 1, "", "none", FALSE, FALSE, FALSE, NoDefinition,
                  SVScope(0, 0).variables)
  /\ UNCHANGED parserVars

DefineVariable(s, name, kind, constant) ==
  LET before == scopes[s].variables
      after  == defineVariableSet(before, s, name, kind, constant)
  IN  /\ defineVariableAccepts(before, name, kind) => TotalDefines < MaxDefines
      /\ IF defineVariableAccepts(before, name, kind)
         THEN /\ scopes' = [scopes EXCEPT ![s].variables = after]
              /\ defined' = [defined EXCEPT ![s] = Append(@, after[name].id)]
              /\ lastOp' = Op("defineVariable", s, name, kind, constant, FALSE, FALSE,
                              after[name], before)
         ELSE /\ UNCHANGED <<scopes, defined>>
              /\ lastOp' = Op("defineVariable", s, name, kind, constant, TRUE, FALSE,
                              NoDefinition, before)
      /\ UNCHANGED parserVars

HasVariable(s, name) ==
  /\ lastOp' = Op("hasVariable", s, name, "none", FALSE, FALSE,
                  hasVariable(scopes, s, name), NoDefinition, scopes[s].variables)
  /\ UNCHANGED <<scopes, defined>>
  /\ UNCHANGED parserVars

HasVariableInParentRoot(s, name) ==
  /\ lastOp' = Op("hasVariableInParentRoot", s, name, "none", FALSE, FALSE,
                  hasVariableInParentRoot(scopes, s, name), NoDefinition,
                  scopes[s].variables)
  /\ UNCHANGED <<scopes, defined>>
  /\ UNCHANGED parserVars

GetVariable(s, name) ==
  /\ lastOp' = IF getVariableThrows(scopes, s, name)
               THEN Op("getVariable", s, name, "none", FALSE, TRUE, FALSE, NoDefinition,
                       scopes[s].variables)
               ELSE Op("getVariable", s, name, "none", FALSE, FALSE, FALSE,
                       getVariable(scopes, s, name), scopes[s].variables)
  /\ UNCHANGED <<scopes, defined>>
  /\ UNCHANGED parserVars

GetVariableInParentRoot(s, name) ==
  /\ lastOp' = IF getVariableInParentRootThrows(scopes, s, name)
               THEN Op("getVariableInParentRoot", s, name, "none", FALSE, TRUE, FALSE,
                       NoDefinition, scopes[s].variables)
               ELSE Op("getVariableInParentRoot", s, name, "none", FALSE, FALSE, FALSE,
                       getVariableInParentRoot(scopes, s, name), scopes[s].variables)
  /\ UNCHANGED <<scopes, defined>>
  /\ UNCHANGED parserVars

----------------------------------------------------------------------------
(* The source tree (@babel/types Node) handed to the parser *)

\* a JavaScript primitive: its typeof and its text
JSValue(typeof, text) == [typeof |-> typeof, text |-> text]

\* null, where the tree has no node: an array hole, a declarator without initializer
Null == [type |-> "null"]

StringLiteral(text) == [type |-> "StringLiteral", value |-> JSValue("string", text)]
NumericLiteral(text) == [type |-> "NumericLiteral", value |-> JSValue("number", text)]
BooleanLiteral(text) == [type |-> "BooleanLiteral", value |-> JSValue("boolean", text)]
BinaryExpression(left, operator, right) ==
  [type |-> "BinaryExpression", left |-> left, operator |-> operator, right |-> right]
LogicalExpression(left, operator, right) ==
  [type |-> "LogicalExpression", left |-> left, operator |-> operator, right |-> right]
UnaryExpression(operator, argument) ==
  [type |-> "UnaryExpression", operator |-> operator, argument |-> argument]
ArrayExpression(elements) == [type |-> "ArrayExpression", elements |-> elements]
ExpressionStatement(expression) == [type |-> "ExpressionStatement", expression |-> expression]
Identifier(name) == [type |-> "Identifier", name |-> name]
VariableDeclarator(id, init) == [type |-> "VariableDeclarator", id |-> id, init |-> init]
VariableDeclaration(kind, declarations) ==
  [type |-> "VariableDeclaration", kind |-> kind, declarations |-> declarations]
\* kinds scanNode has no case for: a call f(), a pattern [name], an empty statement
CallExpression(callee) == [type |-> "CallExpression", callee |-> Identifier(callee)]
ArrayPattern(name) == [type |-> "ArrayPattern", elements |-> <<Identifier(name)>>]
EmptyStatement == [type |-> "EmptyStatement"]

----------------------------------------------------------------------------
(* nodes.ts: the SV node classes *)

\* undefined, where scanNode produced no node
Undefined == [nodeType |-> "undefined"]

SVLiteralAccepts(valueType, value) == assert(value.typeof = valueType)
SVLiteral(valueType, value) == [nodeType |-> "Literal", value |-> value]
SVBinaryExpression(left, right, operator) ==
  [nodeType |-> "BinaryExpression", left |-> left, right |-> right, operator |-> operator]
SVLogicalExpression(left, right, operator) ==
  [nodeType |-> "LogicalExpression", left |-> left, right |-> right, operator |-> operator]
SVUnaryExpression(arg, operator) ==
  [nodeType |-> "UnaryExpression", arg |-> arg, operator |-> operator]
SVArrayExpression(elements) == [nodeType |-> "ArrayExpression", elements |-> elements]
SVIdentifier(name, isGlobal) == [nodeType |-> "Identifier", name |-> name, isGlobal |-> isGlobal]
\* part_000 constructs it under the name SVDefinition
SVVariableDefinition(variables) == [nodeType |-> "VariableDefinition", variables |-> variables]

----------------------------------------------------------------------------
(* part_000: Parser.scanNode *)

\* the outcome of a scanNode call: the node it returns, the nodes it pushed to
\* nodesRoot, and whether it threw instead of returning
Return(svNode, pushed) == [svNode |-> svNode, pushed |-> pushed, threw |-> FALSE]
Throw(pushed) == [svNode |-> Undefined, pushed |-> pushed, threw |-> TRUE]

Reverse(seq) == [i \in 1..Len(seq) |-> seq[Len(seq) + 1 - i]]

\* mutant: the elements are scanned in source order
keepElements(elements) == elements

\* node.elements.reverse()
reverseElements(elements) == Reverse(elements)

\* mutant: every kind but let counts as constant
isNotLet(kind) == kind # "let"

\* constant: node.kind === "const"
isConstant(kind) == kind = "const"

\* the isForRoot argument scanNode passes for a child position
childIsForRoot == FALSE

RECURSIVE scanNode(_, _, _)
RECURSIVE scanElements(_, _)
RECURSIVE scanDeclarations(_, _, _)

\* for(const element of elements) nodeElements.push(this.scanNode(element, false)!)
scanElements(elements, G) ==
  IF elements = <<>> THEN [nodes |-> <<>>, pushed |-> <<>>, threw |-> FALSE]
  ELSE LET first == scanNode(Head(elements), childIsForRoot, G)
           rest  == scanElements(Tail(elements), G)
       IN  IF first.threw
           THEN [nodes |-> <<>>, pushed |-> first.pushed, threw |-> TRUE]
           ELSE [nodes |-> <<first.svNode>> \o rest.nodes,
                 pushed |-> first.pushed \o rest.pushed, threw |-> rest.threw]

\* for(const declarator of node.declarations): skip a non-Identifier id, else push
\* {name, constant, value}
scanDeclarations(declarations, kind, G) ==
  IF declarations = <<>> THEN [variables |-> <<>>, pushed |-> <<>>, threw |-> FALSE]
  ELSE LET declarator == Head(declarations)
           rest == scanDeclarations(Tail(declarations), kind, G)
       IN  IF declarator.id.type # "Identifier" THEN rest
           ELSE LET init == IF declarator.init # Null
                            THEN scanNode(declarator.init, childIsForRoot, G)
                            ELSE Return(Undefined, <<>>)
                    entry == [name |-> declarator.id.name, constant |-> isConstant(kind),
                              value |-> init.svNode]
                IN  IF init.threw
                    THEN [variables |-> <<>>, pushed |-> init.pushed, threw |-> TRUE]
                    ELSE [variables |-> <<entry>> \o rest.variables,
                          pushed |-> init.pushed \o rest.pushed, threw |-> rest.threw]

\* const left = this.scanNode(node.left, false)!; const right = this.scanNode(node.right, false)!
scanOperands(node, G) ==
  LET left  == scanNode(node.left, childIsForRoot, G)
      right == scanNode(node.right, childIsForRoot, G)
  IN  IF left.threw
      THEN [left |-> Undefined, right |-> Undefined, pushed |-> left.pushed, threw |-> TRUE]
      ELSE [left |-> left.svNode, right |-> right.svNode,
            pushed |-> left.pushed \o right.pushed, threw |-> right.threw]

scanNode(node, isForRoot, G) ==
  IF node = Null THEN Throw(<<>>)   \* node.type of null is a TypeError
  ELSE
  LET r == CASE node.type = "StringLiteral" ->
                  IF SVLiteralAccepts("string", node.value)
                  THEN Return(SVLiteral("string", node.value), <<>>) ELSE Throw(<<>>)
             [] node.type = "NumericLiteral" ->
                  IF SVLiteralAccepts("number", node.value)
                  THEN Return(SVLiteral("number", node.value), <<>>) ELSE Throw(<<>>)
             [] node.type = "BooleanLiteral" ->
                  IF SVLiteralAccepts("boolean", node.value)
                  THEN Return(SVLiteral("boolean", node.value), <<>>) ELSE Throw(<<>>)
             [] node.type = "BinaryExpression" ->
                  LET o == scanOperands(node, G)
                  IN  IF o.threw THEN Throw(o.pushed)
                      ELSE Return(SVBinaryExpression(o.left, o.right, node.operator), o.pushed)
             [] node.type = "LogicalExpression" ->
                  LET o == scanOperands(node, G)
                  IN  IF o.threw THEN Throw(o.pushed)
                      ELSE Return(SVLogicalExpression(o.left, o.right, node.operator), o.pushed)
             [] node.type = "UnaryExpression" ->
                  LET arg == scanNode(node.argument, childIsForRoot, G)
                  IN  IF arg.threw THEN arg
                      ELSE Return(SVUnaryExpression(arg.svNode, node.operator), arg.pushed)
             [] node.type = "ArrayExpression" ->
                  LET scanned == scanElements(reverseElements(node.elements), G)
                  IN  IF scanned.threw THEN Throw(scanned.pushed)
                      ELSE Return(SVArrayExpression(scanned.nodes), scanned.pushed)
             [] node.type = "ExpressionStatement" ->
                  LET expression == scanNode(node.expression, childIsForRoot, G)
                  IN  IF expression.threw THEN expression
                      ELSE Return(Undefined, expression.pushed)
             [] node.type = "Identifier" ->
                  Return(SVIdentifier(node.name, node.name \in G), <<>>)
             [] node.type = "VariableDeclaration" ->
                  LET scanned == scanDeclarations(node.declarations, node.kind, G)
                  IN  IF scanned.threw THEN Throw(scanned.pushed)
                      ELSE Return(SVVariableDefinition(scanned.variables), scanned.pushed)
             [] OTHER -> Return(Undefined, <<>>)
  IN  IF ~r.threw /\ r.svNode # Undefined /\ isForRoot
      THEN Return(r.svNode, Append(r.pushed, r.svNode))
      ELSE r

----------------------------------------------------------------------------
(* part_000: Parser.parse *)

\* the names of the Identifier nodes traverse visits below a node, split into the
\* occurrences that declare a name and those that refer to one
RECURSIVE Referenced(_)
Referenced(node) ==
  CASE node.type \in {"BinaryExpression", "LogicalExpression"} ->
         Referenced(node.left) \cup Referenced(node.right)
    [] node.type = "UnaryExpression" -> Referenced(node.argument)
    [] node.type = "ArrayExpression" ->
         UNION {Referenced(node.elements[i]) : i \in 1..Len(node.elements)}
    [] node.type = "ExpressionStatement" -> Referenced(node.expression)
    [] node.type = "Identifier" -> {node.name}
    [] node.type = "CallExpression" -> Referenced(node.callee)
    [] node.type = "VariableDeclaration" ->
         UNION {Referenced(node.declarations[i].init) : i \in 1..Len(node.declarations)}
    [] OTHER -> {}

Declared(node) ==
  IF node.type # "VariableDeclaration" THEN {}
  ELSE UNION {LET id == node.declarations[i].id
              IN  IF id.type = "Identifier" THEN {id.name}
                  ELSE {id.elements[j].name : j \in 1..Len(id.elements)}
              : i \in 1..Len(node.declarations)}

ReferencedIn(body) == UNION {Referenced(body[i]) : i \in 1..Len(body)}
DeclaredIn(body) == UNION {Declared(body[i]) : i \in 1..Len(body)}

\* path.scope.hasGlobal(name) of @babel/traverse: some occurrence of the name in the
\* program resolves to no binding. Every statement of these trees is at the top
\* level, so a name any declaration of the program declares is bound everywhere.
hasGlobal(body, name) == name \in ReferencedIn(body) \ DeclaredIn(body)

\* traverse(tree, {Identifier: ...}): the global-name set after the pre-pass
prePass(G, body) ==
  G \cup {name \in ReferencedIn(body) \cup DeclaredIn(body) : hasGlobal(body, name)}

\* for(const node of tree.program.body) this.scanNode(node)
RECURSIVE scanBody(_, _)
scanBody(body, G) ==
  IF body = <<>> THEN [pushed |-> <<>>, threw |-> FALSE]
  ELSE LET first == scanNode(Head(body), TRUE, G)
           rest  == scanBody(Tail(body), G)
       IN  IF first.threw THEN [pushed |-> first.pushed, threw |-> TRUE]
           ELSE [pushed |-> first.pushed \o rest.pushed, threw |-> rest.threw]

\* the global-name set the main pass of parse reads
mainPassGlobals(G, body) == prePass(G, body)

NoCall == [tree |-> <<>>, threw |-> FALSE, returned |-> <<>>,
           globalsBefore |-> {}, rootBefore |-> <<>>]

Parse(body) ==
  LET scanned == scanBody(body, mainPassGlobals(globals, body))
  IN  /\ globals' = prePass(globals, body)
      /\ nodesRoot' = nodesRoot \o scanned.pushed
      /\ calls' = calls + 1
      /\ lastCall' = [tree |-> body, threw |-> scanned.threw,
                      returned |-> IF scanned.threw THEN <<>> ELSE nodesRoot',
                      globalsBefore |-> globals, rootBefore |-> nodesRoot]
      /\ UNCHANGED scopeVars

----------------------------------------------------------------------------
(* The source trees of the model *)

\* elements of one array literal
MaxElems == 3
\* declarators of one declaration
MaxDecls == 2
\* statements of one program
MaxStmts == 2
\* parse calls on one session
MaxCalls == 2

SeqsUpTo(S, n) == UNION {[1..k -> S] : k \in 0..n}

Operands == {NumericLiteral("1"), StringLiteral("s"), Identifier("x"), Identifier("y"),
             CallExpression("f")}

Elements == {NumericLiteral("1"), NumericLiteral("2"), NumericLiteral("3"),
             CallExpression("f"), Null}

Compound(S) ==
  {BinaryExpression(l, "+", r) : l \in S, r \in Operands}
    \cup {LogicalExpression(l, "&&", r) : l \in Operands, r \in S}
    \cup {UnaryExpression("-", a) : a \in S}

\* operators over operators
Nested ==
  {BinaryExpression(c, "+", NumericLiteral("1")) : c \in Compound(Operands)}
    \cup {LogicalExpression(Identifier("x"), "&&", c) : c \in Compound(Operands)}
    \cup {UnaryExpression("-", c) : c \in Compound(Operands)}

Arrays ==
  {ArrayExpression(e) : e \in SeqsUpTo(Elements, MaxElems)}
    \cup {ArrayExpression(<<ArrayExpression(e), Identifier("x")>>) : e \in SeqsUpTo(Elements, 1)}

Scalars == Operands \cup Compound(Operands) \cup Nested

Expressions == Scalars \cup Arrays

\* declarators, and statements, of the trees with several of them
Declarators ==
  {VariableDeclarator(Identifier("a"), NumericLiteral("1")),
   VariableDeclarator(Identifier("b"), Null),
   VariableDeclarator(Identifier("x"), BooleanLiteral("true")),
   VariableDeclarator(Identifier("c"), Identifier("x")),
   VariableDeclarator(ArrayPattern("y"), Identifier("x"))}

\* a declaration has at least one declarator
DeclaratorLists == SeqsUpTo(Declarators, MaxDecls) \ {<<>>}

Statements ==
  {ExpressionStatement(Identifier("x")),
   ExpressionStatement(CallExpression("f")),
   EmptyStatement,
   VariableDeclaration("let", <<VariableDeclarator(Identifier("a"), NumericLiteral("1"))>>),
   VariableDeclaration("const", <<VariableDeclarator(Identifier("c"), Identifier("y"))>>)}

Declarations ==
  {VariableDeclaration(kind, <<VariableDeclarator(Identifier("a"), init)>>) :
     kind \in Kinds, init \in Scalars \cup {Null}}
    \cup {VariableDeclaration("let", <<VariableDeclarator(Identifier("a"), init)>>) :
            init \in Arrays}
    \cup {VariableDeclaration(kind, d) : kind \in Kinds, d \in DeclaratorLists}

\* the programs of a session's earlier calls
CompactPrograms == SeqsUpTo(Statements, 1)

Programs ==
  SeqsUpTo(Statements, MaxStmts)
    \cup {<<d>> : d \in Declarations}
    \cup {<<ExpressionStatement(e)>> : e \in Expressions}
    \cup {<<s, VariableDeclaration("let", d)>> :
            s \in Statements, d \in DeclaratorLists}

----------------------------------------------------------------------------

Init ==
  /\ scopes = <<SVScope(1, 0)>>
  /\ defined = <<(<<>>)>>
  /\ lastOp = NoOp
  /\ globals = {}
  /\ nodesRoot = <<>>
  /\ calls = 0
  /\ lastCall = NoCall

\* The caller nests each new scope in the latest one and passes the constant flag of
\* the declaration kind (constant iff const), as part_000 derives it.
NextScope ==
  \/ \E p \in {Len(scopes)} : NewScope(p)
  \/ \E s \in 1..Len(scopes), name \in Names, kind \in Kinds :
       DefineVariable(s, name, kind, kind = "const")
  \/ \E s \in 1..Len(scopes), name \in Names : HasVariable(s, name)
  \/ \E s \in 1..Len(scopes), name \in Names : HasVariableInParentRoot(s, name)
  \/ \E s \in 1..Len(scopes), name \in Names : GetVariable(s, name)
  \/ \E s \in 1..Len(scopes), name \in Names : GetVariableInParentRoot(s, name)

\* a session makes up to MaxCalls calls; its last call draws from Programs, the
\* calls before it from CompactPrograms
NextParser ==
  \E body \in Programs :
    /\ calls < MaxCalls
    /\ lastCall.tree \in CompactPrograms
    /\ Parse(body)

\* The scope model and the parser share no state (part_000 never constructs an
\* SVScope): SpecScope and SpecParser are the two components of Spec, and each
\* property is checked under the specification of its component.
Next == NextScope \/ NextParser

SpecScope == Init /\ [][NextScope]_vars
SpecParser == Init /\ [][NextParser]_vars
Spec == Init /\ [][Next]_vars

----------------------------------------------------------------------------
(* Properties of the scope model *)

\* the scopes a chained lookup from s visits: s, its parent, ... up to the root
RECURSIVE Chain(_, _)
Chain(S, s) == IF s = 0 THEN <<>> ELSE <<s>> \o Chain(S, S[s].parent)

Binds(S, s, name) == name \in DOMAIN S[s].variables

BoundInChain(S, s, name) == \E i \in 1..Len(Chain(S, s)) : Binds(S, Chain(S, s)[i], name)

\* the nearest scope of the chain from s that binds name
Nearest(S, s, name) ==
  LET c == Chain(S, s)
      i == CHOOSE j \in 1..Len(c) :
             /\ Binds(S, c[j], name)
             /\ \A k \in 1..(j - 1) : ~Binds(S, c[k], name)
  IN  c[i]

IdsOf(variables) == {variables[n].id : n \in DOMAIN variables}

StrictlyIncreasingFromZero(seq) ==
  /\ (Len(seq) > 0 => seq[1] = 0)
  /\ \A i \in 1..(Len(seq) - 1) : seq[i] < seq[i + 1]

\* C1: defineVariable on a scope that already binds the name succeeds only when the
\* existing kind and the new kind are both var; every other redefinition fails and
\* leaves the scope's bindings unchanged; on a scope that does not bind the name it
\* always succeeds.
C1_RedefinitionOnlyVarVar ==
  lastOp.op = "defineVariable" =>
    IF lastOp.name \in DOMAIN lastOp.before
    THEN /\ (~lastOp.threw) <=>
              (lastOp.before[lastOp.name].kind = "var" /\ lastOp.kind = "var")
         /\ lastOp.threw => scopes[lastOp.scope].variables = lastOp.before
    ELSE ~lastOp.threw

\* C2: hasVariableInParentRoot(name) is true iff name is bound in this scope or in
\* any ancestor, i.e. exactly when getVariableInParentRoot(name) succeeds.
C2_HasInChainIffBoundInChain ==
  lastOp.op = "hasVariableInParentRoot" =>
    /\ lastOp.found <=> BoundInChain(scopes, lastOp.scope, lastOp.name)
    /\ lastOp.found <=> ~getVariableInParentRootThrows(scopes, lastOp.scope, lastOp.name)

\* C3: the ids of the bindings a scope holds are pairwise distinct and are exactly
\* 0..n-1 for its n bindings, and the ids its successful defineVariable calls
\* returned are strictly increasing from 0.
C3_IdsDenseAndIncreasing ==
  \A s \in 1..Len(scopes) :
    LET variables == scopes[s].variables
        n == Cardinality(DOMAIN variables)
    IN  /\ \A a, b \in DOMAIN variables : a # b => variables[a].id # variables[b].id
        /\ IdsOf(variables) = 0..(n - 1)
        /\ StrictlyIncreasingFromZero(defined[s])

\* C7: getVariableInParentRoot(name) returns the binding of the nearest scope of the
\* chain (this scope, then its ancestors outward) that binds name, fails iff no
\* scope of the chain binds it, and changes no scope.
C7_LookupChainNearest ==
  [][lastOp'.op = "getVariableInParentRoot" =>
       /\ scopes' = scopes
       /\ defined' = defined
       /\ lastOp'.threw <=> ~BoundInChain(scopes, lastOp'.scope, lastOp'.name)
       /\ ~lastOp'.threw =>
            lastOp'.def =
              scopes[Nearest(scopes, lastOp'.scope, lastOp'.name)].variables[lastOp'.name]
    ]_vars

\* a lookup from the innermost of three nested scopes found a binding that only the
\* outermost scope holds
C7_Witness ==
  /\ lastOp.op = "getVariableInParentRoot"
  /\ lastOp.scope = 3
  /\ Chain(scopes, 3) = <<3, 2, 1>>
  /\ ~Binds(scopes, 3, lastOp.name) /\ ~Binds(scopes, 2, lastOp.name)
  /\ Binds(scopes, 1, lastOp.name)
  /\ ~lastOp.threw
  /\ lastOp.def.scope = 1

\* C9 as stated: a binding, once created, stays the scope's binding of its name in
\* every later state, and only defineVariable changes a scope's bindings.
C9_BindingNeverReplaced ==
  [][\A s \in 1..Len(scopes) :
       /\ \A n \in DOMAIN scopes[s].variables :
            /\ n \in DOMAIN scopes'[s].variables
            /\ scopes'[s].variables[n] = scopes[s].variables[n]
       /\ scopes'[s].variables # scopes[s].variables =>
            (lastOp'.op = "defineVariable" /\ lastOp'.scope = s)
    ]_vars

\* C9 amended: a name once bound in a scope stays bound there; its binding changes
\* only by a successful defineVariable of that name with kind var on that scope, which
\* replaces it by the binding that call returns; every other binding of the scope is
\* kept as it is, and no operation other than defineVariable changes a scope's bindings.
C9_BindingKeptUnlessVarRedefined ==
  [][\A s \in 1..Len(scopes) :
       /\ \A n \in DOMAIN scopes[s].variables :
            /\ n \in DOMAIN scopes'[s].variables
            /\ scopes'[s].variables[n] # scopes[s].variables[n] =>
                 /\ lastOp'.op = "defineVariable" /\ ~lastOp'.threw
                 /\ lastOp'.scope = s /\ lastOp'.name = n /\ lastOp'.kind = "var"
                 /\ scopes'[s].variables[n] = lastOp'.def
       /\ scopes'[s].variables # scopes[s].variables =>
            (lastOp'.op = "defineVariable" /\ ~lastOp'.threw /\ lastOp'.scope = s)
    ]_vars

\* a redefinition with kind var has replaced the binding of a name, which stays bound
C9_Witness ==
  /\ lastOp.op = "defineVariable" /\ ~lastOp.threw
  /\ lastOp.name \in DOMAIN lastOp.before
  /\ scopes[lastOp.scope].variables[lastOp.name] # lastOp.before[lastOp.name]
  /\ lastOp.kind = "var"
  /\ scopes[lastOp.scope].variables[lastOp.name] = lastOp.def

----------------------------------------------------------------------------
(* Properties of the parser session *)

\* the nodes the last parse call appended to nodesRoot
NewNodes == SubSeq(nodesRoot, Len(lastCall.rootBefore) + 1, Len(nodesRoot))

IsDeclaration(node) == node.type = "VariableDeclaration"
HasIdentifierPattern(declarator) == declarator.id.type = "Identifier"

\* the top-level declaration statements of a program, in source order
DeclarationsOf(body) == SelectSeq(body, IsDeclaration)

\* the kinds scanNode has a case for that yield a node in a child position
Supported(node) ==
  node.type \in {"StringLiteral", "NumericLiteral", "BooleanLiteral", "BinaryExpression",
                 "LogicalExpression", "UnaryExpression", "ArrayExpression", "Identifier"}

\* an SV node and every node below it
RECURSIVE SubNodes(_)
SubNodes(n) ==
  {n} \cup
    CASE n.nodeType \in {"BinaryExpression", "LogicalExpression"} ->
           SubNodes(n.left) \cup SubNodes(n.right)
      [] n.nodeType = "UnaryExpression" -> SubNodes(n.arg)
      [] n.nodeType = "ArrayExpression" ->
           UNION {SubNodes(n.elements[i]) : i \in 1..Len(n.elements)}
      [] n.nodeType = "VariableDefinition" ->
           UNION {SubNodes(n.variables[i].value) : i \in 1..Len(n.variables)}
      [] OTHER -> {}

NodesBelow(seq) == UNION {SubNodes(seq[i]) : i \in 1..Len(seq)}

\* the node a child position is given by the last call
Scanned(node) == scanNode(node, FALSE, globals).svNode

\* C4: every parse call, the first and every later one on a session, returns exactly
\* one node per retained (declaration) top-level statement of its own tree, in source
\* order, and nothing else: no node of a child position, and no entry for a
\* top-level expression statement or a statement of an unsupported kind.
C4_ReturnsOwnTopLevelNodes ==
  (calls > 0 /\ ~lastCall.threw) =>
    LET decls == DeclarationsOf(lastCall.tree)
    IN  /\ Len(lastCall.returned) = Len(decls)
        /\ \A i \in 1..Len(decls) : lastCall.returned[i] = Scanned(decls[i])

\* C4, its last clause: a program of top-level expression statements and statements
\* of unsupported kinds raises no error.
C4_SkippedStatementsRaiseNoError ==
  calls > 0 =>
    ((\A i \in 1..Len(lastCall.tree) : ~IsDeclaration(lastCall.tree[i])) => ~lastCall.threw)

\* C5: the pre-pass has put every global name of the call's tree into the global-name
\* set before the main pass builds an Identifier node, and every Identifier node the
\* call produces has isGlobal true iff the name has a free occurrence in that call's
\* own tree.
C5_IsGlobalIffFreeInOwnTree ==
  calls > 0 =>
    /\ \A name \in ReferencedIn(lastCall.tree) :
         hasGlobal(lastCall.tree, name) => name \in globals
    /\ \A n \in NodesBelow(NewNodes) :
         n.nodeType = "Identifier" => (n.isGlobal <=> hasGlobal(lastCall.tree, n.name))

\* the entries a declaration statement is to give: one per declarator with an
\* identifier pattern, in source order
ExpectedEntries(declaration) ==
  LET kept == SelectSeq(declaration.declarations, HasIdentifierPattern)
  IN  [j \in 1..Len(kept) |->
         [name |-> kept[j].id.name,
          constant |-> (declaration.kind = "const"),
          value |-> IF kept[j].init = Null THEN Undefined ELSE Scanned(kept[j].init)]]

C8_OperandsNonNull ==
  \A n \in NodesBelow(nodesRoot) :
    n.nodeType \in {"BinaryExpression", "LogicalExpression"} =>
      (n.left # Undefined /\ n.right # Undefined)

\* the array literals that initialize a declarator of a top-level declaration of the
\* last call, each with the node the call gave that declarator as its value
ArrayInitializers ==
  LET decls == DeclarationsOf(lastCall.tree)
  IN  UNION {LET kept == SelectSeq(decls[i].declarations, HasIdentifierPattern)
             IN  {<<kept[j].init, NewNodes[i].variables[j].value>> :
                    j \in {k \in 1..Len(kept) : kept[k].init.type = "ArrayExpression"}}
             : i \in 1..Len(decls)}

\* C10: the ArrayExpression node of an array literal with n elements of supported
\* kinds has n elements, the i-th being the node scanned from source element n+1-i
\* (reverse source order), and no element is appended to the output sequence.
C10_ArrayElementsReversed ==
  (calls > 0 /\ ~lastCall.threw) =>
    /\ \A pair \in ArrayInitializers :
         LET source == pair[1].elements
             node == pair[2]
             n == Len(source)
         IN  (\A i \in 1..n : Supported(source[i])) =>
               /\ node.nodeType = "ArrayExpression"
               /\ Len(node.elements) = n
               /\ \A i \in 1..n : node.elements[i] = Scanned(source[n + 1 - i])
    /\ \A i \in 1..Len(NewNodes) : NewNodes[i].nodeType = "VariableDefinition"
    /\ Len(NewNodes) = Len(DeclarationsOf(lastCall.tree))

\* `let a = [1, 2, 3];` gave a the elements 3, 2, 1
C10_Witness ==
  /\ calls > 0 /\ ~lastCall.threw
  /\ lastCall.tree = <<VariableDeclaration("let",
                         <<VariableDeclarator(Identifier("a"),
                             ArrayExpression(<<NumericLiteral("1"), NumericLiteral("2"),
                                               NumericLiteral("3")>>))>>)>>
  /\ Len(NewNodes) = 1
  /\ NewNodes[1].variables[1].value =
       SVArrayExpression(<<SVLiteral("number", JSValue("number", "3")),
                           SVLiteral("number", JSValue("number", "2")),
                           SVLiteral("number", JSValue("number", "1"))>>)

====
